---- MODULE Spec2Model ----
(***************************************************************************)
(* State-machine model of the image OCR pipeline: the Settings resolver,   *)
(* the prompt cache, the GeminiOCRClient singleton with its retried        *)
(* extract call, also constructed from two threads at once, load_image,    *)
(* run_pipeline and main.                                                  *)
(*                                                                         *)
(* Conventions.  A Python str is a sequence of one-character strings, so   *)
(* "" is <<>> and `not s` is Len(s) = 0.  Optional[T] is None or Some(v).  *)
(* A call either returns, Ok(v), or raises, Raise(kind, msg); an exception *)
(* message is the sequence of the pieces its f-string concatenates.        *)
(***************************************************************************)
EXTENDS Integers, Sequences, FiniteSets, TLC

VARIABLES
    env,          \* os.environ: setting name -> Optional[str]
    dotenvFile,   \* the content of the optional local .env file
    loaded,       \* settings._load_dotenv_called
    settings,     \* the class attributes Settings._api_key, ._model_id, ...
    lastGet,      \* observation: the latest Settings access and its outcome
    everSet,      \* observation: required names whose variable was ever non-empty
    returned,     \* observation: name -> the first value an access returned
    instance,     \* GeminiOCRClient._instance: Optional[object id]
    objs,         \* the GeminiOCRClient objects created: id -> [client]
    opens,        \* number of remote-service handles genai.Client has opened
    lastNew,      \* observation: outcome of the latest construction call
    constructed,  \* observation: the instances construction calls returned
    ext,          \* the extract call in progress or just finished
    files,        \* the prompt files on disk: path -> file
    promptCache,  \* pipeline._PROMPT_CACHE: path -> Optional[str]
    lastPrompt,   \* observation: the latest prompt lookup and its outcome
    promptReturned, \* observation: path -> the first content a lookup returned
    pipe,         \* the run_pipeline call in progress or just finished
    proc,         \* the process running main(): position, output, exit status
    thr           \* the threads constructing GeminiOCRClient concurrently

settingsVars == <<env, dotenvFile, loaded, settings, lastGet, everSet, returned>>
clientVars == <<instance, objs, opens, lastNew, constructed>>
promptVars == <<files, promptCache, lastPrompt, promptReturned>>
vars == <<settingsVars, clientVars, ext, promptVars, pipe, proc, thr>>

----------------------------------------------------------------------------
(* Values *)

None == [some |-> FALSE]
Some(v) == [some |-> TRUE, v |-> v]

Ok(v) == [ok |-> TRUE, val |-> v]
Raise(kind, msg) == [ok |-> FALSE, kind |-> kind, msg |-> msg]

Names == {"GEMINI_API_KEY", "GEMINI_MODEL", "TEMPERATURE", "TOP_P"}
Required == {"GEMINI_API_KEY", "GEMINI_MODEL"}

\* The strings the environment may hold for each variable.
EnvStrings(name) ==
    CASE name = "GEMINI_API_KEY" -> {<<>>, <<"k", "1">>}
      [] name = "GEMINI_MODEL"   -> {<<>>, <<"m", "1">>}
      [] name = "TEMPERATURE"    -> {<<"0", ".", "5">>, <<"a", "b", "c">>}
      [] name = "TOP_P"          -> {<<"0", ".", "5", "0">>, <<>>}

EnvValues(name) == {None} \cup {Some(s) : s \in EnvStrings(name)}

\* The .env files considered: none, and one that supplies the model id.
DotenvFiles ==
    { [n \in Names |-> None],
      [n \in Names |-> IF n = "GEMINI_MODEL" THEN Some(<<"m", "1">>) ELSE None] }

----------------------------------------------------------------------------
(* float(str), for strings over digits and "." (any other character makes  *)
(* it raise ValueError, as Python does for the letters drawn here).  A     *)
(* float is m / 10^e with trailing zeros removed.                          *)

Digits == {"0", "1", "2", "3", "4", "5", "6", "7", "8", "9"}

DigitVal(c) ==
    CASE c = "0" -> 0 [] c = "1" -> 1 [] c = "2" -> 2 [] c = "3" -> 3
      [] c = "4" -> 4 [] c = "5" -> 5 [] c = "6" -> 6 [] c = "7" -> 7
      [] c = "8" -> 8 [] c = "9" -> 9

RECURSIVE DigitsToInt(_)
DigitsToInt(s) ==
    IF Len(s) = 0 THEN 0
    ELSE DigitsToInt(SubSeq(s, 1, Len(s) - 1)) * 10 + DigitVal(s[Len(s)])

RECURSIVE Normalize(_)
Normalize(f) ==
    IF f.e > 0 /\ f.m % 10 = 0 THEN Normalize([m |-> f.m \div 10, e |-> f.e - 1])
    ELSE f

float(s) ==
    LET dots == {i \in 1..Len(s) : s[i] = "."}
        digs == {i \in 1..Len(s) : s[i] \in Digits}
    IN  IF Cardinality(dots) > 1 \/ digs = {} \/ dots \cup digs # 1..Len(s)
        THEN Raise("ValueError", <<"could not convert string to float">>)
        ELSE LET d  == IF dots = {} THEN Len(s) + 1 ELSE CHOOSE i \in dots : TRUE
                 ip == SubSeq(s, 1, d - 1)
                 fp == SubSeq(s, d + 1, Len(s))
             IN  Ok(Normalize([m |-> DigitsToInt(ip \o fp), e |-> Len(fp)]))

----------------------------------------------------------------------------
(* app/config/settings.py *)

\* os.getenv(name, default): default is an Optional[str].
getenv(e, name, default) == IF e[name].some THEN e[name] ELSE default

\* load_dotenv(): variables of the file are added, existing ones kept.
load_dotenv(e, file) == [n \in Names |-> IF e[n].some THEN e[n] ELSE file[n]]

\* _ensure_env_loaded: the environment after the call.
_ensure_env_loaded(e, isLoaded, file) ==
    IF ~isLoaded THEN load_dotenv(e, file) ELSE e

\* Each getter maps (cached class attribute, environment) to the attribute
\* after the call, the outcome, whether os.getenv was called, and what it saw.
\* _get_api_key without the `is None` test: the environment is read each time.
_get_api_key_reread(cached, e) ==
    LET v == getenv(e, "GEMINI_API_KEY", None)
    IN  [cache |-> v, read |-> TRUE, seen |-> v,
         out |-> IF ~v.some \/ Len(v.v) = 0
                 THEN Raise("ConfigurationError",
                            <<"GEMINI_API_KEY environment variable is not set">>)
                 ELSE Ok(v.v)]

_get_api_key(cached, e) ==
    IF cached = None
    THEN LET v == getenv(e, "GEMINI_API_KEY", None)
         IN  [cache |-> v, read |-> TRUE, seen |-> v,
              out |-> IF ~v.some \/ Len(v.v) = 0
                      THEN Raise("ConfigurationError",
                                 <<"GEMINI_API_KEY environment variable is not set">>)
                      ELSE Ok(v.v)]
    ELSE [cache |-> cached, read |-> FALSE, seen |-> None, out |-> Ok(cached.v)]

_get_model_id(cached, e) ==
    IF cached = None
    THEN LET v == getenv(e, "GEMINI_MODEL", None)
         IN  [cache |-> v, read |-> TRUE, seen |-> v,
              out |-> IF ~v.some \/ Len(v.v) = 0
                      THEN Raise("ConfigurationError",
                                 <<"GEMINI_MODEL environment variable is not set">>)
                      ELSE Ok(v.v)]
    ELSE [cache |-> cached, read |-> FALSE, seen |-> None, out |-> Ok(cached.v)]

_get_temperature(cached, e) ==
    IF cached = None
    THEN LET v == getenv(e, "TEMPERATURE", Some(<<"0", ".", "0">>))
             p == float(v.v)
         IN  [cache |-> IF p.ok THEN Some(p.val) ELSE None,
              read |-> TRUE, seen |-> v, out |-> p]
    ELSE [cache |-> cached, read |-> FALSE, seen |-> None, out |-> Ok(cached.v)]

_get_top_p(cached, e) ==
    IF cached = None
    THEN LET v == getenv(e, "TOP_P", Some(<<"0", ".", "1">>))
             p == float(v.v)
         IN  [cache |-> IF p.ok THEN Some(p.val) ELSE None,
              read |-> TRUE, seen |-> v, out |-> p]
    ELSE [cache |-> cached, read |-> FALSE, seen |-> None, out |-> Ok(cached.v)]

\* The public accessor for the setting kept in environment variable `name`.
Getter(name, cached, e) ==
    CASE name = "GEMINI_API_KEY" -> _get_api_key(cached, e)
      [] name = "GEMINI_MODEL"   -> _get_model_id(cached, e)
      [] name = "TEMPERATURE"    -> _get_temperature(cached, e)
      [] name = "TOP_P"          -> _get_top_p(cached, e)

NonEmpty(e) == {n \in Required : e[n].some /\ Len(e[n].v) > 0}

\* The Settings state a call works on, and one public accessor call
\* (get_api_key, get_model_id, get_temperature, get_top_p) on it.
SettingsState == [env |-> env, loaded |-> loaded, settings |-> settings]

Access(name, st) ==
    LET e == _ensure_env_loaded(st.env, st.loaded, dotenvFile)
        r == Getter(name, st.settings[name], e)
    IN  [st |-> [env |-> e, loaded |-> TRUE,
                 settings |-> [st.settings EXCEPT ![name] = r.cache]],
         out |-> r.out, read |-> r.read, seen |-> r.seen]

\* A call leaves the Settings state st behind.
SettingsBecome(st) ==
    /\ env' = st.env
    /\ loaded' = st.loaded
    /\ settings' = st.settings
    /\ everSet' = everSet \cup NonEmpty(st.env)
    /\ UNCHANGED dotenvFile

NoGet == [name |-> "none"]

----------------------------------------------------------------------------
(* app/utils/file_utils.py and the prompt cache of app/pipeline.py *)

SystemPromptPath == "app/prompts/system.txt"
UserPromptPath == "app/prompts/extraction.txt"
PromptPaths == {SystemPromptPath, UserPromptPath}

\* What a path may be on disk: nothing, a directory, or a regular file that
\* cannot be opened, whose bytes are not UTF-8, or that holds a text.
Missing == [exists |-> FALSE]
Directory == [exists |-> TRUE, is_file |-> FALSE]
Unreadable == [exists |-> TRUE, is_file |-> TRUE, opens |-> FALSE]
BadUtf8 == [exists |-> TRUE, is_file |-> TRUE, opens |-> TRUE, utf8 |-> FALSE]
TextFile(c) ==
    [exists |-> TRUE, is_file |-> TRUE, opens |-> TRUE, utf8 |-> TRUE, text |-> c]

PromptTexts == {<<>>, <<"P">>, <<"Q">>}
FileStates == {Missing, Directory, Unreadable, BadUtf8} \cup
              {TextFile(c) : c \in PromptTexts}

\* read_file(path) when the path is the file f.
read_file(path, f) ==
    IF ~f.exists
    THEN Raise("ValidationError", <<"File does not exist: ", path>>)
    ELSE IF ~f.is_file
    THEN Raise("ValidationError", <<"Path is not a file: ", path>>)
    ELSE IF ~f.opens
    THEN Raise("ValidationError", <<"Failed to read file ", path, ": ",
                                    "Permission denied">>)
    ELSE IF ~f.utf8
    THEN Raise("ValidationError", <<"Failed to read file ", path, ": ",
                                    "invalid start byte">>)
    ELSE Ok(f.text)

\* _get_cached_prompt without the cache test: the file is read each time.
_get_cached_prompt_reread(path, cache, fs) ==
    LET r == read_file(path, fs[path])
    IN  [cache |-> IF r.ok THEN [cache EXCEPT ![path] = Some(r.val)] ELSE cache,
         read |-> TRUE, out |-> r]

\* _get_cached_prompt(path): the cache after the call, whether read_file was
\* called, and the outcome.
_get_cached_prompt(path, cache, fs) ==
    IF ~cache[path].some
    THEN LET r == read_file(path, fs[path])
         IN  [cache |-> IF r.ok THEN [cache EXCEPT ![path] = Some(r.val)] ELSE cache,
              read |-> TRUE, out |-> r]
    ELSE [cache |-> cache, read |-> FALSE, out |-> Ok(cache[path].v)]

\* A lookup has been made: the cache and the observations after it.
PromptBecome(path, r) ==
    /\ promptCache' = r.cache
    /\ lastPrompt' = [pc |-> "done", path |-> path, out |-> r.out, read |-> r.read]
    /\ promptReturned' = IF r.out.ok /\ ~promptReturned[path].some
                         THEN [promptReturned EXCEPT ![path] = Some(r.out.val)]
                         ELSE promptReturned
    /\ UNCHANGED files

----------------------------------------------------------------------------
(* json.loads, for texts made of objects, arrays, strings without escapes, *)
(* unsigned integers, true, false, null and spaces.  A parsed value is     *)
(* tagged with its Python type: dict (a function from keys to values),     *)
(* list, str, int, or one of True, False, None.                            *)

JNum(n) == [t |-> "int", n |-> n]
JStr(c) == [t |-> "str", s |-> c]
JLit(x) == [t |-> "lit", x |-> x]
JArr(a) == [t |-> "list", a |-> a]
JObj(m) == [t |-> "dict", m |-> m]

EmptyDict == [k \in {} |-> None]
\* d[k] = v on a dict.
SetItem(d, k, v) == [x \in DOMAIN d \cup {k} |-> IF x = k THEN v ELSE d[x]]

NoParse == [ok |-> FALSE]
Parsed(v, n) == [ok |-> TRUE, val |-> v, next |-> n]

RECURSIVE SkipSpaces(_, _)
SkipSpaces(s, i) ==
    IF i <= Len(s) /\ s[i] = " " THEN SkipSpaces(s, i + 1) ELSE i

RECURSIVE DigitsEnd(_, _)
DigitsEnd(s, i) ==
    IF i <= Len(s) /\ s[i] \in Digits THEN DigitsEnd(s, i + 1) ELSE i

StartsWith(s, i, w) == i + Len(w) - 1 <= Len(s) /\ SubSeq(s, i, i + Len(w) - 1) = w

\* The string literal whose opening quote is s[i].
ParseString(s, i) ==
    LET closing == {j \in (i + 1)..Len(s) : s[j] = "\""}
    IN  IF closing = {} THEN NoParse
        ELSE LET j == CHOOSE j \in closing : \A k \in closing : j <= k
             IN  Parsed(SubSeq(s, i + 1, j - 1), j + 1)

\* Bind(v, F) is F(v) with v evaluated once.
Bind(v, F(_)) == CHOOSE r \in {F(x) : x \in {v}} : TRUE

RECURSIVE ParseValue(_, _), ParseMembers(_, _, _), ParseElements(_, _, _)

\* The value that starts at s[i], after spaces.
ParseValue(s, i0) ==
    Bind(SkipSpaces(s, i0), LAMBDA i :
      IF i > Len(s) THEN NoParse
      ELSE IF s[i] = "{"
      THEN Bind(SkipSpaces(s, i + 1), LAMBDA j :
             IF j <= Len(s) /\ s[j] = "}" THEN Parsed(JObj(EmptyDict), j + 1)
             ELSE ParseMembers(s, j, EmptyDict))
      ELSE IF s[i] = "["
      THEN Bind(SkipSpaces(s, i + 1), LAMBDA j :
             IF j <= Len(s) /\ s[j] = "]" THEN Parsed(JArr(<<>>), j + 1)
             ELSE ParseElements(s, j, <<>>))
      ELSE IF s[i] = "\""
      THEN Bind(ParseString(s, i), LAMBDA r :
             IF r.ok THEN Parsed(JStr(r.val), r.next) ELSE NoParse)
      ELSE IF s[i] \in Digits
      THEN Bind(DigitsEnd(s, i), LAMBDA j :
             IF s[i] = "0" /\ j > i + 1 THEN NoParse
             ELSE Parsed(JNum(DigitsToInt(SubSeq(s, i, j - 1))), j))
      ELSE IF StartsWith(s, i, <<"t", "r", "u", "e">>)
      THEN Parsed(JLit("True"), i + 4)
      ELSE IF StartsWith(s, i, <<"f", "a", "l", "s", "e">>)
      THEN Parsed(JLit("False"), i + 5)
      ELSE IF StartsWith(s, i, <<"n", "u", "l", "l">>)
      THEN Parsed(JLit("None"), i + 4)
      ELSE NoParse)

\* The members of an object from s[i] on, d holding those read so far
\* (a repeated key keeps its last value).
ParseMembers(s, i, d) ==
    IF i > Len(s) \/ s[i] # "\"" THEN NoParse
    ELSE Bind(ParseString(s, i), LAMBDA k :
      IF ~k.ok THEN NoParse
      ELSE Bind(SkipSpaces(s, k.next), LAMBDA c :
        IF c > Len(s) \/ s[c] # ":" THEN NoParse
        ELSE Bind(ParseValue(s, c + 1), LAMBDA v :
          IF ~v.ok THEN NoParse
          ELSE Bind(SkipSpaces(s, v.next), LAMBDA e :
            IF e > Len(s) THEN NoParse
            ELSE IF s[e] = "}"
            THEN Parsed(JObj(SetItem(d, k.val, v.val)), e + 1)
            ELSE IF s[e] = ","
            THEN ParseMembers(s, SkipSpaces(s, e + 1), SetItem(d, k.val, v.val))
            ELSE NoParse))))

\* The elements of an array from s[i] on, a holding those read so far.
ParseElements(s, i, a) ==
    Bind(ParseValue(s, i), LAMBDA v :
      IF ~v.ok THEN NoParse
      ELSE Bind(SkipSpaces(s, v.next), LAMBDA e :
        IF e > Len(s) THEN NoParse
        ELSE IF s[e] = "]" THEN Parsed(JArr(Append(a, v.val)), e + 1)
        ELSE IF s[e] = "," THEN ParseElements(s, e + 1, Append(a, v.val))
        ELSE NoParse))

\* json.loads(text): the value, or JSONDecodeError when the text is not one
\* JSON value followed by nothing but spaces.
json_loads(text) ==
    Bind(ParseValue(text, 1), LAMBDA v :
      IF v.ok /\ SkipSpaces(text, v.next) = Len(text) + 1 THEN Ok(v.val)
      ELSE Raise("JSONDecodeError", <<"Expecting value">>))

----------------------------------------------------------------------------
(* Operations on the Settings resolver *)

NoCall == [pc |-> "idle"]

\* The process is single-threaded: a new top-level call starts only when no
\* extract call is in progress.
Idle == ext.pc \in {"idle", "done"} /\ pipe.pc \in {"idle", "done"}

\* The environments a process may start in.
ValidEnv ==
    [n \in Names |-> CASE n = "GEMINI_API_KEY" -> Some(<<"k", "1">>)
                       [] n = "GEMINI_MODEL"   -> Some(<<"m", "1">>)
                       [] n = "TEMPERATURE"    -> Some(<<"0", ".", "5">>)
                       [] n = "TOP_P"          -> None]

SettingsStart ==
    /\ loaded = FALSE
    /\ settings = [n \in Names |-> None]
    /\ lastGet = NoGet
    /\ everSet = NonEmpty(env)
    /\ returned = [n \in Names |-> None]

ClientStart ==
    /\ instance = None
    /\ objs = <<>>
    /\ opens = 0
    /\ lastNew = NoCall
    /\ constructed = {}
    /\ ext = NoCall
    /\ pipe = NoCall
    /\ proc = NoCall
    /\ thr = <<>>

\* No prompt has been looked up.
PromptStart ==
    /\ promptCache = [q \in PromptPaths |-> None]
    /\ lastPrompt = NoCall
    /\ promptReturned = [q \in PromptPaths |-> None]

SettingsInit ==
    /\ env \in [Names -> {None}] \cup
               {[n \in Names |-> IF n \in Required THEN Some(<<>>) ELSE None]}
    /\ dotenvFile \in DotenvFiles
    /\ SettingsStart
    /\ ClientStart
    /\ files = [q \in PromptPaths |-> TextFile(<<"P">>)]
    /\ PromptStart

\* The environment is changed between two calls (os.environ[name] = v, or del).
SetEnv(name, v) ==
    /\ v # env[name]
    /\ env' = [env EXCEPT ![name] = v]
    /\ everSet' = everSet \cup NonEmpty(env')
    /\ UNCHANGED <<dotenvFile, loaded, settings, lastGet, returned>>
    /\ UNCHANGED <<clientVars, ext, promptVars, pipe, proc, thr>>

\* Settings.get_api_key(), get_model_id(), get_temperature(), get_top_p(),
\* called directly.
Get(name) ==
    LET r == Access(name, SettingsState)
    IN  /\ Idle
        /\ SettingsBecome(r.st)
        /\ lastGet' = [name |-> name, out |-> r.out, read |-> r.read,
                       seen |-> r.seen, prior |-> returned[name]]
        /\ returned' = IF r.out.ok /\ ~returned[name].some
                       THEN [returned EXCEPT ![name] = Some(r.out.val)]
                       ELSE returned
        /\ UNCHANGED <<clientVars, ext, promptVars, pipe, proc, thr>>

MutateEnv == \E n \in Names : \E v \in EnvValues(n) : SetEnv(n, v)
GetApiKey == Get("GEMINI_API_KEY")
GetModelId == Get("GEMINI_MODEL")
GetTemperature == Get("TEMPERATURE")
GetTopP == Get("TOP_P")

SettingsNext ==
    \/ MutateEnv
    \/ GetApiKey
    \/ GetModelId
    \/ GetTemperature
    \/ GetTopP

SpecSettings == SettingsInit /\ [][SettingsNext]_vars

----------------------------------------------------------------------------
(* The remote service (google.genai), as the client sees it.               *)
(* genai.Client(api_key=...) returns a handle or raises; generate_content  *)
(* raises or returns a result: None, or a response with prompt_feedback    *)
(* (None, or feedback whose block_reason is None or a reason), text (None  *)
(* or a str) and usage_metadata (None or the two token counts).            *)

Response(feedback, text, usage) ==
    Some([prompt_feedback |-> feedback, text |-> text, usage_metadata |-> usage])

Usage(i, o) == Some([prompt_token_count |-> i, candidates_token_count |-> o])

\* The response texts: {"a":1}, {"a":1,"usage_metadata":2}, [1], not json.
TextObject == <<"{", "\"", "a", "\"", ":", "1", "}">>
TextCollision ==
    <<"{", "\"", "a", "\"", ":", "1", ",", "\"", "u", "s", "a", "g", "e",
      "_", "m", "e", "t", "a", "d", "a", "t", "a", "\"", ":", "2", "}">>
TextArray == <<"[", "1", "]">>
TextNotJson == <<"n", "o", "t", " ", "j", "s", "o", "n">>
\* The texts 7, "s", true and null.
TextNumber == <<"7">>
TextString == <<"\"", "s", "\"">>
TextTrue == <<"t", "r", "u", "e">>
TextNull == <<"n", "u", "l", "l">>
\* {"a":1 without its closing brace.
TextCut == <<"{", "\"", "a", "\"", ":", "1">>

\* Bound: the token counts a response may report are 0..MaxTokens (and the
\* counts 3, 4, 5, 7 of the fixed responses below).
MaxTokens == 1

Responses ==
    { Response(None, Some(TextObject), Usage(i, o)) :
        i \in 0..MaxTokens, o \in 0..MaxTokens } \cup
    { None,
      Response(None, Some(TextObject), None),
      Response(Some(None), Some(TextObject), Usage(5, 7)),
      Response(None, Some(TextNotJson), None),
      Response(None, Some(TextNotJson), Usage(5, 7)),
      Response(None, Some(TextCut), None),
      Response(Some(Some("SAFETY")), None, None),
      Response(Some(Some("OTHER")), Some(TextObject), Usage(5, 7)),
      Response(None, Some(<<>>), None),
      Response(Some(None), None, Usage(5, 7)),
      Response(None, Some(TextCollision), Usage(3, 4)),
      Response(None, Some(TextArray), None),
      Response(None, Some(TextArray), Usage(5, 7)),
      Response(None, Some(TextNumber), None),
      Response(None, Some(TextString), None),
      Response(None, Some(TextTrue), None),
      Response(None, Some(TextNull), None),
      Response(None, Some(TextNull), Usage(5, 7)) }

ServiceRaises == [raises |-> TRUE, msg |-> <<"503 UNAVAILABLE">>]
ServiceReturns(r) == [raises |-> FALSE, result |-> r]
ServiceBehaviours == {ServiceRaises} \cup {ServiceReturns(r) : r \in Responses}

----------------------------------------------------------------------------
(* app/ocr/gemini_client.py *)

\* GeminiOCRClient.__new__: the object the call yields and the objects and
\* _instance after it.  A new object has no _client of its own, so it reads
\* the class attribute, None.
__new__(inst, os) ==
    IF inst = None
    THEN [id |-> Len(os) + 1, instance |-> Some(Len(os) + 1),
          objs |-> Append(os, [client |-> None])]
    ELSE [id |-> inst.v, instance |-> inst, objs |-> os]

\* __init__ without the `_client is not None` early return.
__init__reopen(o, st, mk, h) ==
    LET k == Access("GEMINI_API_KEY", st)
    IN  IF ~k.out.ok
        THEN [client |-> None, st |-> k.st, opened |-> FALSE,
              out |-> Raise("ConfigurationError",
                            <<"Failed to initialize Gemini client: ">> \o k.out.msg)]
        ELSE IF mk = "fail"
        THEN [client |-> None, st |-> k.st, opened |-> FALSE,
              out |-> Raise("APIError",
                            <<"Failed to create Gemini client: ", "no transport">>)]
        ELSE [client |-> Some(h), st |-> k.st, opened |-> TRUE, out |-> Ok("None")]

\* GeminiOCRClient.__init__ on object o: mk is what genai.Client does when
\* it is called ("ok": returns handle number h, "fail": raises).
__init__(o, st, mk, h) ==
    IF o.client # None
    THEN [client |-> o.client, st |-> st, opened |-> FALSE, out |-> Ok("None")]
    ELSE LET k == Access("GEMINI_API_KEY", st)
         IN  IF ~k.out.ok
             THEN [client |-> None, st |-> k.st, opened |-> FALSE,
                   out |-> Raise("ConfigurationError",
                                 <<"Failed to initialize Gemini client: ">> \o k.out.msg)]
             ELSE IF mk = "fail"
             THEN [client |-> None, st |-> k.st, opened |-> FALSE,
                   out |-> Raise("APIError",
                                 <<"Failed to create Gemini client: ", "no transport">>)]
             ELSE [client |-> Some(h), st |-> k.st, opened |-> TRUE, out |-> Ok("None")]

\* The response checks without the safety-block check.
ValidateResponse_noblock(r) ==
    IF r = None
    THEN Raise("APIError", <<"Empty response from Gemini API">>)
    ELSE IF ~r.v.text.some \/ Len(r.v.text.v) = 0
    THEN Raise("APIError", <<"Empty response text from Gemini API">>)
    ELSE Ok(r)

\* The response checks of extract, on the result r of generate_content.
ValidateResponse(r) ==
    IF r = None
    THEN Raise("APIError", <<"Empty response from Gemini API">>)
    ELSE IF r.v.prompt_feedback.some /\ r.v.prompt_feedback.v.some
    THEN Raise("APIError", <<"Content blocked by safety filters: ",
                             r.v.prompt_feedback.v.v>>)
    ELSE IF ~r.v.text.some \/ Len(r.v.text.v) = 0
    THEN Raise("APIError", <<"Empty response text from Gemini API">>)
    ELSE Ok(r)

\* `except APIError: raise` / `except Exception as e: raise APIError(...)`.
Classify(kind, msg) ==
    IF kind = "APIError" THEN Raise("APIError", msg)
    ELSE Raise("APIError", <<"Gemini API call failed: ">> \o msg)

\* One execution of the body of extract on an object whose _client is c,
\* with the service behaving as svc if it is invoked.  raw is the kind of
\* the exception raised inside the try block ("none" when it returns),
\* called tells whether generate_content was invoked.
ExtractBody(c, st, svc) ==
    LET t == Access("TEMPERATURE", st)
        p == Access("TOP_P", t.st)
        m == Access("GEMINI_MODEL", p.st)
        Failed(s, kind, msg) ==
            [st |-> s, raw |-> kind, called |-> FALSE, result |-> None,
             out |-> Classify(kind, msg)]
    IN  IF ~t.out.ok THEN Failed(t.st, t.out.kind, t.out.msg)
        ELSE IF ~p.out.ok THEN Failed(p.st, p.out.kind, p.out.msg)
        ELSE IF c = None THEN Failed(p.st, "APIError", <<"Client not initialized">>)
        ELSE IF ~m.out.ok THEN Failed(m.st, m.out.kind, m.out.msg)
        ELSE IF svc.raises
        THEN [st |-> m.st, raw |-> "Exception", called |-> TRUE, result |-> None,
              out |-> Classify("Exception", svc.msg)]
        ELSE LET v == ValidateResponse(svc.result)
             IN  [st |-> m.st, raw |-> IF v.ok THEN "none" ELSE "APIError",
                  called |-> TRUE, result |-> svc.result, out |-> v]

\* The retry policy of extract (tenacity).
stop_after_attempt == 3
\* A policy that allows one attempt more.
ShouldStop_late(attempt) == attempt >= stop_after_attempt + 1
ShouldStop(attempt) == attempt >= stop_after_attempt
retry_if_exception_type(out) == ~out.ok /\ out.kind = "APIError"
\* reraise=True: when the attempts are used up the last exception is raised.
\* reraise=False: the last exception is wrapped into tenacity's RetryError.
Reraise_wrapped(out) == Raise("RetryError", <<"RetryError: ">> \o out.msg)
Reraise(out) == out

----------------------------------------------------------------------------
(* Operations on the client *)

\* No API key can be resolved: neither the environment nor the value kept by
\* Settings holds a non-empty key.
KeyUnresolvable ==
    /\ env["GEMINI_API_KEY"] = None \/ env["GEMINI_API_KEY"] = Some(<<>>)
    /\ settings["GEMINI_API_KEY"] = None \/ settings["GEMINI_API_KEY"] = Some(<<>>)

\* wait_exponential(multiplier=1, min=2, max=10)
wait_multiplier == 1
wait_min == 2
wait_max == 10

RECURSIVE SumSeq(_)
SumSeq(q) == IF q = <<>> THEN 0 ELSE q[1] + SumSeq(Tail(q))

\* What the retry loop hands to the wait function after a failed attempt:
\* the number of attempts made and the time slept so far.
RetryState(log, waits) == [attempt_number |-> Len(log), idle_for |-> SumSeq(waits)]

Min2(a, b) == IF a <= b THEN a ELSE b
Max2(a, b) == IF a >= b THEN a ELSE b

\* A wait that adds the time already slept.
wait_exponential_cumulative(retry_state) ==
    Max2(Max2(0, wait_min),
         Min2(wait_multiplier * 2 ^ (retry_state.attempt_number - 1)
                + retry_state.idle_for, wait_max))

\* The wait after a failed attempt: multiplier * 2^(attempt_number - 1),
\* not below min and not above max.
wait_exponential(retry_state) ==
    Max2(Max2(0, wait_min),
         Min2(wait_multiplier * 2 ^ (retry_state.attempt_number - 1), wait_max))

\* GeminiOCRClient(): __new__, then __init__ on the object it yields.  The
\* record of the call keeps whether a key could be resolved when it was made.
GeminiOCRClient ==
    \E mk \in {"ok", "fail"} :
        \E n \in {__new__(instance, objs)} :
            \E i \in {__init__(n.objs[n.id], SettingsState, mk, opens + 1)} :
                /\ instance' = n.instance
                /\ objs' = [n.objs EXCEPT ![n.id] = [client |-> i.client]]
                /\ opens' = IF i.opened THEN opens + 1 ELSE opens
                /\ lastNew' = [pc |-> "done", id |-> n.id, opened |-> i.opened,
                               out |-> i.out, nokey |-> KeyUnresolvable]
                /\ constructed' = IF i.out.ok THEN constructed \cup {n.id}
                                  ELSE constructed
                /\ SettingsBecome(i.st)
                /\ UNCHANGED <<lastGet, returned>>

\* A construction call made directly.
Construct ==
    /\ Idle
    /\ GeminiOCRClient
    /\ UNCHANGED <<ext, promptVars, pipe, proc, thr>>

\* client.extract(image, system_prompt, user_prompt) is called on an instance
\* a construction call returned; no attempt has been made yet.
ExtractCall ==
    \E self \in constructed :
        /\ Idle
        /\ ext' = [pc |-> "attempt", self |-> self, log |-> <<>>, waits |-> <<>>]
        /\ UNCHANGED <<settingsVars, clientVars, promptVars, pipe, proc, thr>>

\* One attempt: the body runs once, then the retry policy decides; when it
\* decides to go on, the wait before the next attempt is computed (waits
\* keeps the waits of the call).
ExtractAttempt ==
    /\ ext.pc = "attempt"
    /\ \E svc \in ServiceBehaviours :
        \E r \in {ExtractBody(objs[ext.self].client, SettingsState, svc)} :
            \E log \in {Append(ext.log, [raw |-> r.raw, called |-> r.called,
                                         result |-> r.result, out |-> r.out])} :
                /\ SettingsBecome(r.st)
                /\ ext' = IF ~retry_if_exception_type(r.out)
                          THEN [pc |-> "done", self |-> ext.self, log |-> log,
                                waits |-> ext.waits, out |-> r.out]
                          ELSE IF ShouldStop(Len(log))
                          THEN [pc |-> "done", self |-> ext.self, log |-> log,
                                waits |-> ext.waits, out |-> Reraise(r.out)]
                          ELSE [pc |-> "wait", self |-> ext.self, log |-> log,
                                waits |-> Append(ext.waits,
                                    wait_exponential(RetryState(log, ext.waits)))]
                /\ UNCHANGED <<lastGet, returned, clientVars, promptVars, pipe, proc, thr>>

\* The sleep between two attempts ends.
ExtractWait ==
    /\ ext.pc = "wait"
    /\ ext' = [ext EXCEPT !.pc = "attempt"]
    /\ UNCHANGED <<settingsVars, clientVars, promptVars, pipe, proc, thr>>

\* The environments a client process starts in: complete, the key missing
\* or empty, the model id missing or empty, a non-numeric temperature.
ClientEnvs ==
    { ValidEnv,
      [ValidEnv EXCEPT !["GEMINI_API_KEY"] = None],
      [ValidEnv EXCEPT !["GEMINI_API_KEY"] = Some(<<>>)],
      [ValidEnv EXCEPT !["GEMINI_MODEL"] = None],
      [ValidEnv EXCEPT !["GEMINI_MODEL"] = Some(<<>>)],
      [ValidEnv EXCEPT !["TEMPERATURE"] = Some(<<"a", "b", "c">>)] }

ClientInit ==
    /\ env \in ClientEnvs
    /\ dotenvFile = [n \in Names |-> None]
    /\ SettingsStart
    /\ ClientStart
    /\ files = [q \in PromptPaths |-> TextFile(<<"P">>)]
    /\ PromptStart

\* The API key is put into the environment after a failed construction.
ProvideKey ==
    /\ Idle
    /\ env["GEMINI_API_KEY"] = None
    /\ SetEnv("GEMINI_API_KEY", Some(<<"k", "1">>))

ClientNext ==
    \/ Construct
    \/ ProvideKey
    \/ ExtractCall
    \/ ExtractAttempt
    \/ ExtractWait

SpecClient == ClientInit /\ [][ClientNext]_vars

----------------------------------------------------------------------------
(* app/utils/validation.py and app/processors/image_loader.py *)

\* What an image path is on disk, and what PIL does with it: Image.open
\* and image.load() succeed ("ok") or raise the named exception; format and
\* size are those of the decoded image.
ImageFile(ex, isf, rd, op, ld, fmt, w, h) ==
    [exists |-> ex, is_file |-> isf, readable |-> rd, open |-> op, load |-> ld,
     format |-> fmt, size |-> <<w, h>>]

GoodImage == ImageFile(TRUE, TRUE, TRUE, "ok", "ok", Some("WEBP"), 4, 3)

ImagePaths ==
    { "", "images/none.webp", "images", "images/locked.webp",
      "images/text.webp", "images/cut.webp", "images/raw.webp",
      "images/flat.webp", "images/gone.webp", "images/sample.webp",
      "./images/sample.webp" }

ImageDisk(path) ==
    CASE path = "images/none.webp" ->
            ImageFile(FALSE, FALSE, FALSE, "OSError", "ok", None, 0, 0)
      [] path = "images" ->
            ImageFile(TRUE, FALSE, TRUE, "OSError", "ok", None, 0, 0)
      [] path = "images/locked.webp" ->
            ImageFile(TRUE, TRUE, FALSE, "OSError", "ok", None, 0, 0)
      [] path = "images/text.webp" ->
            ImageFile(TRUE, TRUE, TRUE, "UnidentifiedImageError", "ok", None, 0, 0)
      [] path = "images/cut.webp" ->
            ImageFile(TRUE, TRUE, TRUE, "ok", "OSError", Some("WEBP"), 4, 3)
      [] path = "images/raw.webp" ->
            ImageFile(TRUE, TRUE, TRUE, "ok", "ok", None, 4, 3)
      [] path = "images/flat.webp" ->
            ImageFile(TRUE, TRUE, TRUE, "ok", "ok", Some("WEBP"), 4, 0)
      [] path = "images/gone.webp" ->
            ImageFile(TRUE, TRUE, TRUE, "OSError", "ok", None, 0, 0)
      [] path = "images/sample.webp" -> GoodImage
      [] OTHER -> ImageFile(FALSE, FALSE, FALSE, "OSError", "ok", None, 0, 0)

\* str(Path(p)): pathlib drops a leading "./".
PathStr(p) == IF p = "./images/sample.webp" THEN "images/sample.webp" ELSE p

validate_image_path(image_path) ==
    LET f == ImageDisk(PathStr(image_path))
    IN  IF image_path = ""
        THEN Raise("ValidationError", <<"Image path cannot be empty">>)
        ELSE IF ~f.exists
        THEN Raise("ValidationError", <<"Image path does not exist: ", image_path>>)
        ELSE IF ~f.is_file
        THEN Raise("ValidationError", <<"Image path is not a file: ", image_path>>)
        ELSE IF ~f.readable
        THEN Raise("ValidationError", <<"Image file is not readable: ", image_path>>)
        ELSE Ok(PathStr(image_path))

\* The same without the check of the dimensions.
validate_image_format_nodims(image) ==
    IF image.format = None
    THEN Raise("ImageLoadError", <<"Image format could not be determined">>)
    ELSE Ok("None")

validate_image_format(image) ==
    IF image.format = None
    THEN Raise("ImageLoadError", <<"Image format could not be determined">>)
    ELSE IF image.size[1] = 0 \/ image.size[2] = 0
    THEN Raise("ImageLoadError", <<"Image has invalid dimensions">>)
    ELSE Ok("None")

\* load_image(path): `out` is what the call returns or raises, `fp` what has
\* become of the file Image.open opened ("none": no file was opened).  The
\* function has no `with` block and calls no close(): the file is closed only
\* where PIL closes it itself, which it does when Image.open rejects the file
\* and when image.load() runs to its end; a load() that raises midway leaves
\* the file as it is (keeps) or has closed it before raising (~keeps).
load_image(path, keeps) ==
    LET v == validate_image_path(path)
        f == ImageDisk(v.val)
        image == [format |-> f.format, size |-> f.size]
        Wrapped(what) ==
            Raise("ImageLoadError", <<"Failed to load image from ", path, ": ", what>>)
    IN  IF ~v.ok THEN [out |-> v, fp |-> "none"]
        ELSE IF f.open = "OSError" THEN [out |-> Wrapped(f.open), fp |-> "none"]
        ELSE IF f.open # "ok" THEN [out |-> Wrapped(f.open), fp |-> "closed"]
        ELSE IF f.load # "ok"
        THEN [out |-> Wrapped(f.load), fp |-> IF keeps THEN "open" ELSE "closed"]
        ELSE IF ~validate_image_format(image).ok
        THEN [out |-> validate_image_format(image), fp |-> "closed"]
        ELSE [out |-> Ok(image), fp |-> "closed"]

----------------------------------------------------------------------------
(* app/exceptions.py and run_pipeline of app/pipeline.py *)

\* OCRException and its subclasses.
OCRExceptions ==
    { "OCRException", "ImageLoadError", "APIError", "ValidationError",
      "ConfigurationError", "JSONParseError" }

KeyUsageMetadata ==
    <<"u", "s", "a", "g", "e", "_", "m", "e", "t", "a", "d", "a", "t", "a">>
KeyInputTokens ==
    <<"i", "n", "p", "u", "t", "_", "t", "o", "k", "e", "n", "s">>
KeyOutputTokens ==
    <<"o", "u", "t", "p", "u", "t", "_", "t", "o", "k", "e", "n", "s">>
KeyNote == <<"n", "o", "t", "e">>
NotePopulated ==
    <<"P", "o", "p", "u", "l", "a", "t", "e", "d", " ", "f", "r", "o", "m",
      " ", "G", "e", "m", "i", "n", "i", " ", "A", "P", "I">>

\* data["usage_metadata"] = {...} with the counts swapped.
AttachUsage_swapped(data, usage) ==
    IF data.t = "dict"
    THEN Ok(JObj(SetItem(data.m, KeyUsageMetadata,
            JObj(SetItem(SetItem(SetItem(EmptyDict,
                KeyInputTokens, JNum(usage.candidates_token_count)),
                KeyOutputTokens, JNum(usage.prompt_token_count)),
                KeyNote, JStr(NotePopulated))))))
    ELSE Raise("TypeError", <<"object does not support item assignment">>)

\* data["usage_metadata"] = {...}: item assignment works on a dict only.
AttachUsage(data, usage) ==
    IF data.t = "dict"
    THEN Ok(JObj(SetItem(data.m, KeyUsageMetadata,
            JObj(SetItem(SetItem(SetItem(EmptyDict,
                KeyInputTokens, JNum(usage.prompt_token_count)),
                KeyOutputTokens, JNum(usage.candidates_token_count)),
                KeyNote, JStr(NotePopulated))))))
    ELSE Raise("TypeError", <<"object does not support item assignment">>)

\* The same without the `except json.JSONDecodeError` clause.
ParseResponse_uncaught(response) ==
    Bind(json_loads(response.v.text.v), LAMBDA data :
      IF ~data.ok
      THEN data
      ELSE IF response.v.usage_metadata.some
      THEN AttachUsage(data.val, response.v.usage_metadata.v)
      ELSE Ok(data.val))

\* The part of run_pipeline that follows extract, on its response.
ParseResponse(response) ==
    Bind(json_loads(response.v.text.v), LAMBDA data :
      IF ~data.ok
      THEN Raise("JSONParseError", <<"Failed to parse JSON response: ">> \o data.msg)
      ELSE IF response.v.usage_metadata.some
      THEN AttachUsage(data.val, response.v.usage_metadata.v)
      ELSE Ok(data.val))

\* The same without the `except OCRException: raise` clause.
ExceptHandler_wrapall(out) ==
    IF out.ok THEN out
    ELSE Raise("OCRException", <<"Pipeline execution failed: ">> \o out.msg)

\* `except OCRException: raise` / `except Exception as e: raise OCRException(...)`.
ExceptHandler(out) ==
    IF out.ok \/ out.kind \in OCRExceptions THEN out
    ELSE Raise("OCRException", <<"Pipeline execution failed: ">> \o out.msg)

\* The statements of run_pipeline's try block run in program order: each one
\* that returns is followed by the next.
StepAfter_clientfirst(step) ==
    CASE step = "load" -> "construct"
      [] step = "system" -> "user"
      [] step = "user" -> "construct"
      [] step = "construct" -> "extract"
      [] step = "extract" -> "parse"
      [] OTHER -> "return"

StepAfter(step) ==
    CASE step = "load" -> "system"
      [] step = "system" -> "user"
      [] step = "user" -> "construct"
      [] step = "construct" -> "extract"
      [] step = "extract" -> "parse"
      [] OTHER -> "return"

\* A run_pipeline call that has executed nothing yet.  Besides its position
\* the record keeps what the run has done: the statements executed (steps),
\* what load_image gave (loaded), what extract returned (response), how many
\* times the service was called (calls) and the last attempt of extract.
NewRun(path) ==
    [pc |-> "load", path |-> path, steps |-> <<>>, loaded |-> None,
     response |-> None, calls |-> 0, last |-> None]

\* The run after statement `step` was executed.
Ran(step) == [pipe EXCEPT !.steps = Append(@, step)]

\* run_pipeline ends: `raised` is what the try block returned or raised, `out`
\* what the call returns or raises after the except clauses.
PipeDone(p, out) ==
    [pc |-> "done", path |-> p.path, steps |-> p.steps, loaded |-> p.loaded,
     response |-> p.response, calls |-> p.calls, last |-> p.last,
     raised |-> out, out |-> ExceptHandler(out)]

----------------------------------------------------------------------------
(* Operations of run_pipeline, one per step *)

\* run_pipeline(image_path) is called.
PipeCall ==
    \E path \in ImagePaths :
        /\ Idle
        /\ pipe' = NewRun(path)
        /\ UNCHANGED <<settingsVars, clientVars, ext, promptVars, proc, thr>>

\* image = load_image(image_path)
PipeLoad ==
    /\ pipe.pc = "load"
    /\ \E keeps \in BOOLEAN :
          \E r \in {load_image(pipe.path, keeps)} :
              \E p \in {[Ran("load") EXCEPT !.loaded = Some(r)]} :
                  pipe' = IF r.out.ok THEN [p EXCEPT !.pc = StepAfter("load")]
                          ELSE PipeDone(p, r.out)
    /\ UNCHANGED <<settingsVars, clientVars, ext, promptVars, proc, thr>>

\* system_prompt = _get_cached_prompt("app/prompts/system.txt")
PipeSystemPrompt ==
    /\ pipe.pc = "system"
    /\ \E r \in {_get_cached_prompt(SystemPromptPath, promptCache, files)} :
          /\ PromptBecome(SystemPromptPath, r)
          /\ pipe' = IF r.out.ok THEN [Ran("system") EXCEPT !.pc = StepAfter("system")]
                     ELSE PipeDone(Ran("system"), r.out)
    /\ UNCHANGED <<settingsVars, clientVars, ext, proc, thr>>

\* user_prompt = _get_cached_prompt("app/prompts/extraction.txt")
PipeUserPrompt ==
    /\ pipe.pc = "user"
    /\ \E r \in {_get_cached_prompt(UserPromptPath, promptCache, files)} :
          /\ PromptBecome(UserPromptPath, r)
          /\ pipe' = IF r.out.ok THEN [Ran("user") EXCEPT !.pc = StepAfter("user")]
                     ELSE PipeDone(Ran("user"), r.out)
    /\ UNCHANGED <<settingsVars, clientVars, ext, proc, thr>>

\* ocr_client = GeminiOCRClient(); when it returns, extract is called on it.
PipeConstruct ==
    /\ pipe.pc = "construct"
    /\ GeminiOCRClient
    /\ pipe' = IF lastNew'.out.ok
               THEN [Ran("construct") EXCEPT !.pc = StepAfter("construct")]
               ELSE PipeDone(Ran("construct"), lastNew'.out)
    /\ ext' = IF lastNew'.out.ok
              THEN [pc |-> "attempt", self |-> lastNew'.id, log |-> <<>>, waits |-> <<>>]
              ELSE NoCall
    /\ UNCHANGED <<promptVars, proc, thr>>

\* response = ocr_client.extract(...) has ended, retries included.
PipeExtracted ==
    /\ pipe.pc = "extract"
    /\ ext.pc = "done"
    /\ \E p \in {[Ran("extract") EXCEPT
                    !.calls = Cardinality({k \in DOMAIN ext.log : ext.log[k].called}),
                    !.last = Some(ext.log[Len(ext.log)])]} :
          pipe' = IF ext.out.ok
                  THEN [p EXCEPT !.pc = StepAfter("extract"), !.response = ext.out.val]
                  ELSE PipeDone(p, ext.out)
    /\ ext' = NoCall
    /\ UNCHANGED <<settingsVars, clientVars, promptVars, proc, thr>>

\* json.loads, usage metadata, return.
PipeFinish ==
    /\ pipe.pc = "parse"
    /\ pipe' = PipeDone(Ran("parse"), ParseResponse(pipe.response))
    /\ UNCHANGED <<settingsVars, clientVars, ext, promptVars, proc, thr>>

\* The prompt files a pipeline process may find.
PipelineFiles ==
    { [q \in PromptPaths |-> TextFile(<<"P">>)],
      [q \in PromptPaths |-> IF q = SystemPromptPath THEN Missing
                             ELSE TextFile(<<"Q">>)],
      [q \in PromptPaths |-> IF q = UserPromptPath THEN BadUtf8
                             ELSE TextFile(<<"P">>)] }

PipelineInit ==
    /\ env \in {ValidEnv, [ValidEnv EXCEPT !["GEMINI_API_KEY"] = None],
                [ValidEnv EXCEPT !["GEMINI_MODEL"] = None]}
    /\ dotenvFile = [n \in Names |-> None]
    /\ SettingsStart
    /\ ClientStart
    /\ files \in PipelineFiles
    /\ PromptStart

PipelineNext ==
    \/ PipeCall
    \/ PipeLoad
    \/ PipeSystemPrompt
    \/ PipeUserPrompt
    \/ PipeConstruct
    \/ ExtractAttempt
    \/ ExtractWait
    \/ PipeExtracted
    \/ PipeFinish

SpecPipeline == PipelineInit /\ [][PipelineNext]_vars

----------------------------------------------------------------------------
(* Properties of run_pipeline, checked under SpecPipeline *)

\* The objects the texts {"a":1} and {"a":1,"usage_metadata":2} denote.
ObjectA == SetItem(EmptyDict, <<"a">>, JNum(1))
ExpectedObject(text) ==
    IF text = TextObject THEN ObjectA
    ELSE [k \in {<<"a">>, KeyUsageMetadata} |->
              IF k = <<"a">> THEN JNum(1) ELSE JNum(2)]

\* C10: when the response text is a well-formed JSON object J, run_pipeline
\* returns J unchanged if the response reports no usage metadata, and
\* otherwise J with usage_metadata set to {input_tokens: i, output_tokens: o,
\* note: "Populated from Gemini API"} and every other key unchanged.
C10_ObjectReturnedWithUsage ==
    (/\ pipe.pc = "done"
     /\ pipe.response # None
     /\ pipe.response.v.text.v \in {TextObject, TextCollision})
        => LET J == ExpectedObject(pipe.response.v.text.v)
               u == pipe.response.v.usage_metadata
           IN  IF ~u.some THEN pipe.out = Ok(JObj(J))
               ELSE /\ pipe.out.ok
                    /\ pipe.out.val.t = "dict"
                    /\ DOMAIN pipe.out.val.m = DOMAIN J \cup {KeyUsageMetadata}
                    /\ \A k \in DOMAIN J \ {KeyUsageMetadata} :
                          pipe.out.val.m[k] = J[k]
                    /\ pipe.out.val.m[KeyUsageMetadata] =
                          JObj([k \in {KeyInputTokens, KeyOutputTokens, KeyNote} |->
                                  IF k = KeyInputTokens
                                  THEN JNum(u.v.prompt_token_count)
                                  ELSE IF k = KeyOutputTokens
                                  THEN JNum(u.v.candidates_token_count)
                                  ELSE JStr(NotePopulated)])

\* {"a":1} with usage {5, 7} came back as {"a":1, "usage_metadata": {...}}.
C10_Witness ==
    /\ pipe.pc = "done"
    /\ pipe.response # None
    /\ pipe.response.v.text.v = TextObject
    /\ pipe.response.v.usage_metadata = Usage(5, 7)
    /\ pipe.out.ok
    /\ pipe.out.val.m[KeyUsageMetadata].m[KeyInputTokens] = JNum(5)
    /\ pipe.out.val.m[KeyUsageMetadata].m[KeyOutputTokens] = JNum(7)
    /\ pipe.out.val.m[<<"a">>] = JNum(1)

----------------------------------------------------------------------------
(* Operations on the prompt cache *)

\* A prompt file is replaced, removed or edited on disk.
ChangeFile ==
    \E q \in PromptPaths : \E f \in FileStates :
        /\ f # files[q]
        /\ files' = [files EXCEPT ![q] = f]
        /\ UNCHANGED <<promptCache, lastPrompt, promptReturned>>
        /\ UNCHANGED <<settingsVars, clientVars, ext, pipe, proc, thr>>

\* _get_cached_prompt(path), called directly.
Lookup(path) ==
    \E r \in {_get_cached_prompt(path, promptCache, files)} :
        /\ Idle
        /\ PromptBecome(path, r)
        /\ UNCHANGED <<settingsVars, clientVars, ext, pipe, proc, thr>>

LookupSystemPrompt == Lookup(SystemPromptPath)
LookupUserPrompt == Lookup(UserPromptPath)

PromptInit ==
    /\ env = ValidEnv
    /\ dotenvFile = [n \in Names |-> None]
    /\ SettingsStart
    /\ ClientStart
    /\ files \in [PromptPaths -> FileStates]
    /\ PromptStart

PromptNext ==
    \/ ChangeFile
    \/ LookupSystemPrompt
    \/ LookupUserPrompt

SpecPrompts == PromptInit /\ [][PromptNext]_vars

----------------------------------------------------------------------------
(* Properties of the prompt cache, checked under SpecPrompts *)

\* C8: a lookup of a path that an earlier lookup has read successfully returns
\* the same content without reading the file again, whatever the file holds
\* now; a lookup that reads returns the content of its own path's file, and
\* leaves the cache entry of the other path alone.
C8_PromptCachedPerPath ==
    [][lastPrompt' # lastPrompt =>
         LET q == lastPrompt'.path
         IN  /\ promptReturned[q].some
                  => /\ lastPrompt'.out = Ok(promptReturned[q].v)
                     /\ ~lastPrompt'.read
             /\ (lastPrompt'.read /\ lastPrompt'.out.ok)
                  => lastPrompt'.out = Ok(files[q].text)
             /\ \A o \in PromptPaths \ {q} : promptCache'[o] = promptCache[o]
      ]_vars

\* Both paths are cached with different contents, and the latest lookup
\* returned the cached content of a file that has changed since.
C8_Witness ==
    /\ lastPrompt.pc = "done"
    /\ lastPrompt.out.ok
    /\ ~lastPrompt.read
    /\ files[lastPrompt.path] # TextFile(lastPrompt.out.val)
    /\ promptCache[SystemPromptPath].some
    /\ promptCache[UserPromptPath].some
    /\ promptCache[SystemPromptPath] # promptCache[UserPromptPath]

----------------------------------------------------------------------------
(* Properties of the client, checked under SpecClient *)

\* The attempts of the current extract call, and the APIError test.
ExtLog == IF ext.pc = "idle" THEN <<>> ELSE ext.log
RaisedAPIError(out) == ~out.ok /\ out.kind = "APIError"
ServiceCalls == Cardinality({k \in 1..Len(ExtLog) : ExtLog[k].called})

\* C1: one extract call invokes the service at most 3 times, and when attempt
\* k <= 3 is the first that does not raise APIError, extract returns that
\* attempt's response and makes no further attempt.
C1_AtMostThreeAttemptsFirstSuccessReturned ==
    /\ Len(ExtLog) <= 3
    /\ ServiceCalls <= 3
    /\ \A k \in 1..Len(ExtLog) :
          (/\ ~RaisedAPIError(ExtLog[k].out)
           /\ \A j \in 1..(k - 1) : RaisedAPIError(ExtLog[j].out))
              => /\ ext.pc = "done"
                 /\ Len(ExtLog) = k
                 /\ ExtLog[k].called
                 /\ ext.out = Ok(ExtLog[k].result)

\* APIError on attempts 1 and 2, success on attempt 3: the success is returned.
C1_Witness ==
    /\ ext.pc = "done"
    /\ Len(ext.log) = 3
    /\ ServiceCalls = 3
    /\ ext.out.ok

\* C2: when every attempt of an extract call raises APIError, the call ends
\* after exactly 3 attempts, with the third attempt's APIError unchanged.
C2_ExhaustedRetriesReraiseLast ==
    (\A k \in 1..Len(ExtLog) : RaisedAPIError(ExtLog[k].out))
        => /\ (ext.pc = "done") <=> (Len(ExtLog) = 3)
           /\ ext.pc = "done" => ext.out = ExtLog[3].out

\* Three failed attempts whose errors differ: the caller gets the third.
C2_Witness ==
    /\ ext.pc = "done"
    /\ ~ext.out.ok
    /\ Len(ext.log) = 3
    /\ ext.log[1].out # ext.log[3].out
    /\ ext.log[2].out # ext.log[3].out

\* C3: a ConfigurationError arising during an extract call is not retried:
\* exactly one attempt is made and the caller receives a ConfigurationError.
C3_ConfigurationErrorNotRetried ==
    (\E k \in 1..Len(ExtLog) : ExtLog[k].raw = "ConfigurationError")
        => /\ ext.pc = "done"
           /\ Len(ExtLog) = 1
           /\ ~ext.out.ok
           /\ ext.out.kind = "ConfigurationError"

\* C7: all construction calls that return yield the same instance, and the
\* remote-service handle is opened at most once.
C7_SingleInstanceSingleHandle ==
    /\ Cardinality(constructed) <= 1
    /\ opens <= 1

\* A construction call returns after an earlier one opened the handle, and
\* opens nothing.
C7_Witness ==
    /\ lastNew.pc = "done"
    /\ lastNew.out.ok
    /\ ~lastNew.opened
    /\ opens = 1

\* What the claim calls an acceptable service result.
Blocked(r) == r.v.prompt_feedback.some /\ r.v.prompt_feedback.v.some
Acceptable(r) == r # None /\ ~Blocked(r) /\ r.v.text.some /\ r.v.text.v # <<>>
Contains(msg, piece) == \E i \in 1..Len(msg) : msg[i] = piece

\* C9: an attempt in which the service returned a result yields a response
\* only if the result is non-empty, not blocked and has non-empty text;
\* otherwise it fails with APIError, whose message contains the block reason
\* when the result is blocked.  What extract returns is such a response.
C9_OnlyValidResponsesReturned ==
    /\ \A k \in 1..Len(ExtLog) :
          LET a == ExtLog[k]
          IN  (a.called /\ a.raw # "Exception")
                 => /\ Acceptable(a.result) => a.out = Ok(a.result)
                    /\ ~Acceptable(a.result) => RaisedAPIError(a.out)
                    /\ (a.result # None /\ Blocked(a.result))
                          => Contains(a.out.msg, a.result.v.prompt_feedback.v.v)
    /\ (ext.pc = "done" /\ ext.out.ok) => Acceptable(ext.out.val)

\* A blocked result that carries text was rejected with its reason, an empty
\* result and an empty text were rejected, and an acceptable one returned.
C9_Witness ==
    /\ ext.pc = "done"
    /\ ext.out.ok
    /\ Len(ext.log) = 3
    /\ ext.log[1].called /\ ext.log[1].result # None
    /\ Blocked(ext.log[1].result) /\ ext.log[1].result.v.text.some
    /\ Contains(ext.log[1].out.msg, "OTHER")
    /\ ext.log[2].called /\ ext.log[2].raw = "APIError"
    /\ ext.log[2].result # None /\ ~Blocked(ext.log[2].result)

----------------------------------------------------------------------------
(* Properties of the Settings resolver, checked under SpecSettings *)

\* C4: while a required variable (GEMINI_API_KEY, GEMINI_MODEL) has been unset
\* or empty ever since the process started, every access to that setting,
\* the first and every later one, fails with ConfigurationError.
C4_RequiredMissingAlwaysFails ==
    (lastGet.name \in Required /\ lastGet.name \notin everSet)
        => (~lastGet.out.ok /\ lastGet.out.kind = "ConfigurationError")

\* C5: once an access to a setting has returned v, every later access to it
\* returns v and does not read the environment, whatever the environment holds.
C5_ResolvedValueIsKept ==
    (lastGet.name \in Names /\ lastGet.prior.some)
        => (lastGet.out = Ok(lastGet.prior.v) /\ ~lastGet.read)

\* A later access returns the cached key k1 although the variable is now unset,
\* and a later access returns the cached temperature although it is now "abc".
C5_Witness ==
    \/ /\ lastGet.name = "GEMINI_API_KEY"
       /\ lastGet.prior = Some(<<"k", "1">>)
       /\ lastGet.out.ok
       /\ env["GEMINI_API_KEY"] = None
       /\ settings["TEMPERATURE"].some
       /\ env["TEMPERATURE"] = Some(<<"a", "b", "c">>)

NonNumeric(s) == Len(s) = 0 \/ \E i \in 1..Len(s) : s[i] \notin Digits \cup {"."}

\* C6: an access that reads a non-numeric TEMPERATURE or TOP_P fails with
\* ConfigurationError.
C6_NonNumericIsConfigurationError ==
    (/\ lastGet.name \in {"TEMPERATURE", "TOP_P"}
     /\ lastGet.read
     /\ NonNumeric(lastGet.seen.v))
        => (~lastGet.out.ok /\ lastGet.out.kind = "ConfigurationError")

----------------------------------------------------------------------------
(* More properties of run_pipeline, checked under SpecPipeline *)

\* The response texts that are not JSON.
NotJsonTexts == {TextNotJson, TextCut}

\* C11: when extract returned a response whose text is not valid JSON, the
\* run ends raising JSONParseError, not the generic OCRException, and the
\* service call that returned that response is the last one of the run:
\* extract is not entered again.
C11_InvalidJsonIsJSONParseError ==
    (/\ pipe.pc = "done"
     /\ pipe.response # None
     /\ pipe.response.v.text.v \in NotJsonTexts)
        => /\ ~pipe.out.ok
           /\ pipe.out.kind = "JSONParseError"
           /\ StartsWith(pipe.out.msg, 1, <<"Failed to parse JSON response: ">>)
           /\ pipe.last.v.called
           /\ pipe.last.v.out = Ok(pipe.response)
           /\ pipe.calls \in 1..stop_after_attempt
           /\ ext = NoCall

\* A run whose second service call returned text that is not JSON: the first
\* call was retried, the parse failure was not.
C11_Witness ==
    /\ pipe.pc = "done"
    /\ pipe.response # None
    /\ pipe.response.v.text.v = TextCut
    /\ pipe.calls = 2
    /\ pipe.out.kind = "JSONParseError"

\* C12: an error that leaves run_pipeline is always of a kind defined in
\* exceptions.py.  An error of a defined kind raised inside leaves with its
\* kind and message unchanged; any other exception leaves as the generic
\* OCRException whose message is "Pipeline execution failed: " followed by
\* the original message, the prefix appearing once.
C12_OnlyDefinedKindsEscape ==
    (pipe.pc = "done" /\ ~pipe.out.ok)
        => /\ ~pipe.raised.ok
           /\ pipe.out.kind \in OCRExceptions
           /\ pipe.raised.kind \in OCRExceptions => pipe.out = pipe.raised
           /\ pipe.raised.kind \notin OCRExceptions
                => /\ pipe.out.kind = "OCRException"
                   /\ pipe.out.msg = <<"Pipeline execution failed: ">> \o pipe.raised.msg
                   /\ ~StartsWith(pipe.raised.msg, 1, <<"Pipeline execution failed: ">>)

\* Both cases happen: a TypeError raised by the usage-metadata assignment on
\* a parsed array leaves wrapped.
C12_Witness ==
    /\ pipe.pc = "done"
    /\ ~pipe.out.ok
    /\ pipe.raised.kind = "TypeError"
    /\ pipe.out.kind = "OCRException"
    /\ pipe.response.v.text.v = TextArray

\* What the file system and PIL say about an image path, one condition of
\* the claim each.
PathUsable(p) ==
    LET f == ImageDisk(PathStr(p))
    IN  p # "" /\ f.exists /\ f.is_file /\ f.readable
Decodes(p) ==
    LET f == ImageDisk(PathStr(p)) IN f.open = "ok" /\ f.load = "ok"
WellFormed(p) ==
    LET f == ImageDisk(PathStr(p))
    IN  f.format # None /\ f.size[1] # 0 /\ f.size[2] # 0

\* C13: load_image returns an image exactly when the path is non-empty,
\* names an existing, regular, readable file, the file decodes, and the
\* decoded image has a format and non-zero width and height; the image is
\* the decoded one.  Otherwise it raises ValidationError when the path is at
\* fault and ImageLoadError when decoding, the format or a dimension is.
C13_LoadImageClassifies ==
    (pipe.pc # "idle" /\ pipe.loaded # None)
        => LET r == pipe.loaded.v.out
               p == pipe.path
               f == ImageDisk(PathStr(p))
           IN  /\ r.ok <=> (PathUsable(p) /\ Decodes(p) /\ WellFormed(p))
               /\ r.ok => r.val = [format |-> f.format, size |-> f.size]
               /\ ~PathUsable(p) => (~r.ok /\ r.kind = "ValidationError")
               /\ (PathUsable(p) /\ ~(Decodes(p) /\ WellFormed(p)))
                    => (~r.ok /\ r.kind = "ImageLoadError")

\* load_image was applied to a file that opens and decodes with a format but
\* has height 0.
C13_Witness ==
    /\ pipe.pc = "done"
    /\ pipe.loaded # None
    /\ pipe.path = "images/flat.webp"
    /\ ~pipe.loaded.v.out.ok
    /\ pipe.loaded.v.out.kind = "ImageLoadError"

----------------------------------------------------------------------------
(* app/main.py *)

\* image_path = "images/sample.webp"
image_path == "images/sample.webp"

\* What a print to standard output does: it writes the line, or the write
\* fails (a closed pipe, a full disk, a character the stream cannot encode).
StdoutWrites == {Ok("None"), Raise("OSError", <<"[Errno 32] Broken pipe">>)}

\* json.dumps(result, indent=2, ensure_ascii=False): the printed text stands
\* for the value it was made from; its layout is not modelled.
json_dumps(value) == [dumps |-> value, indent |-> 2, ensure_ascii |-> FALSE]

\* The except clauses of main with one message for both.
main_except_same(e) ==
    [line |-> <<"Error: ">> \o e.msg, status |-> 1]

\* The except clauses of main, for the exception e raised in the try block:
\* the line printed to standard error and the status given to sys.exit.
main_except(e) ==
    IF e.kind \in OCRExceptions
    THEN [line |-> <<"Error: ">> \o e.msg, status |-> 1]
    ELSE [line |-> <<"Unexpected error: ">> \o e.msg, status |-> 1]

\* The process starts main(): the first print, which is outside the try
\* block, then run_pipeline(image_path) is called.  An exception of that
\* print is caught by nobody: the interpreter prints the traceback and ends
\* with status 1.
MainStart ==
    /\ proc.pc = "idle"
    /\ Idle
    /\ \E w \in StdoutWrites :
          IF w.ok
          THEN /\ proc' = [pc |-> "try", stdout |-> <<<<"Processing image: ", image_path>>>>,
                           stderr |-> <<>>, raised |-> None, status |-> None]
               /\ pipe' = NewRun(image_path)
          ELSE /\ proc' = [pc |-> "exited", stdout |-> <<>>,
                           stderr |-> <<<<"Traceback (most recent call last):">> \o w.msg>>,
                           raised |-> None, status |-> Some(1)]
               /\ pipe' = pipe
    /\ UNCHANGED <<settingsVars, clientVars, ext, promptVars, thr>>

\* run_pipeline has ended: the result is printed, or an except clause runs.
\* `raised` keeps what the try block did: Ok, or the exception it raised.
MainFinish ==
    /\ proc.pc = "try"
    /\ pipe.pc = "done"
    /\ \E w \in StdoutWrites :
          \E e \in {IF ~pipe.out.ok THEN pipe.out ELSE w} :
              proc' = IF e.ok
                      THEN [proc EXCEPT !.pc = "exited", !.raised = Some(e),
                                        !.stdout = Append(@, json_dumps(pipe.out.val)),
                                        !.status = Some(0)]
                      ELSE [proc EXCEPT !.pc = "exited", !.raised = Some(e),
                                        !.stderr = Append(@, main_except(e).line),
                                        !.status = Some(main_except(e).status)]
    /\ UNCHANGED <<settingsVars, clientVars, ext, promptVars, pipe, thr>>

MainNext ==
    \/ MainStart
    \/ PipeLoad
    \/ PipeSystemPrompt
    \/ PipeUserPrompt
    \/ PipeConstruct
    \/ ExtractAttempt
    \/ ExtractWait
    \/ PipeExtracted
    \/ PipeFinish
    \/ MainFinish

SpecMain == PipelineInit /\ [][MainNext]_vars

----------------------------------------------------------------------------
(* Properties of main, checked under SpecMain *)

\* main has ended after entering its try block.
MainEnded == proc.pc = "exited" /\ proc.raised # None

\* C14 as stated: when the try block of main raised, whatever the exception,
\* standard error gets the one line "Error: <message>" and the status is not
\* 0; when it did not, the result is printed and the status is 0.
C14_ErrorLineForEveryException ==
    MainEnded
        => LET e == proc.raised.v
           IN  IF e.ok
               THEN /\ proc.stdout[Len(proc.stdout)] = json_dumps(pipe.out.val)
                    /\ proc.stderr = <<>>
                    /\ proc.status = Some(0)
               ELSE /\ proc.stderr = <<<<"Error: ">> \o e.msg>>
                    /\ proc.status # Some(0)

\* C14, amended: an exception of a kind defined in exceptions.py gives the
\* line "Error: <message>", any other exception raised in the try block gives
\* "Unexpected error: <message>"; both end the process with status 1 and
\* print no result.  Without an exception the result is printed after the
\* "Processing image" line, nothing goes to standard error and the status is
\* 0.  When the first print itself fails nothing is caught and the process
\* ends with status 1.
C14_ErrorLineByKind ==
    proc.pc = "exited"
        => IF proc.raised = None
           THEN proc.status = Some(1) /\ proc.stdout = <<>> /\ pipe.pc = "idle"
           ELSE LET e == proc.raised.v
                IN  /\ proc.stdout[1] = <<"Processing image: ", image_path>>
                    /\ e.ok => /\ proc.stdout =
                                    <<proc.stdout[1], json_dumps(pipe.out.val)>>
                               /\ pipe.out.ok
                               /\ proc.stderr = <<>>
                               /\ proc.status = Some(0)
                    /\ (~e.ok /\ e.kind \in OCRExceptions)
                         => /\ proc.stderr = <<<<"Error: ">> \o e.msg>>
                            /\ e = pipe.out
                            /\ Len(proc.stdout) = 1
                            /\ proc.status = Some(1)
                    /\ (~e.ok /\ e.kind \notin OCRExceptions)
                         => /\ proc.stderr = <<<<"Unexpected error: ">> \o e.msg>>
                            /\ pipe.out.ok
                            /\ Len(proc.stdout) = 1
                            /\ proc.status = Some(1)

\* run_pipeline returned a result and printing it failed: the exception is
\* not an OCRException and main reports it as unexpected.
C14_Witness ==
    /\ MainEnded
    /\ pipe.out.ok
    /\ ~proc.raised.v.ok
    /\ proc.raised.v.kind = "OSError"
    /\ proc.stderr = <<<<"Unexpected error: ", "[Errno 32] Broken pipe">>>>
    /\ proc.status = Some(1)

\* C15: whenever run_pipeline returns, the value it returns is a dict.
C15_ReturnsMapping ==
    (pipe.pc = "done" /\ pipe.out.ok) => pipe.out.val.t = "dict"

\* The order of the claim.
RunOrder == <<"load", "system", "user", "construct", "extract", "parse">>

IsPrefix(s, t) == Len(s) <= Len(t) /\ s = SubSeq(t, 1, Len(s))

\* C16: the statements a run has executed are always an initial part of
\* load, system prompt, user prompt, construct, extract, parse.  While
\* extract is running, and whenever the service was called, the image has
\* loaded, both prompts are in the cache and the client was constructed.  A
\* run that failed stopped at the statement that raised: it executed nothing
\* after it; a run whose load_image failed executed only that, got no
\* response and called the service zero times.  A run that returned executed
\* all six.
C16_StepsInOrder ==
    pipe.pc # "idle"
        => /\ IsPrefix(pipe.steps, RunOrder)
           /\ (ext.pc # "idle" \/ pipe.calls > 0 \/ pipe.response # None)
                => /\ SubSeq(pipe.steps, 1, 4) = SubSeq(RunOrder, 1, 4)
                   /\ pipe.loaded # None /\ pipe.loaded.v.out.ok
                   /\ \A q \in PromptPaths : promptCache[q] # None
                   /\ lastNew.pc = "done" /\ lastNew.out.ok
                   /\ instance # None /\ objs[instance.v].client # None
           /\ ext.pc # "idle" => pipe.pc = "extract"
           /\ (pipe.pc = "done" /\ pipe.out.ok) => pipe.steps = RunOrder
           /\ (pipe.pc = "done" /\ ~pipe.loaded.v.out.ok)
                => /\ pipe.steps = <<"load">>
                   /\ pipe.raised = pipe.loaded.v.out
                   /\ pipe.calls = 0 /\ pipe.response = None /\ ext = NoCall
           /\ (pipe.pc = "done" /\ pipe.steps[Len(pipe.steps)] \in {"system", "user"})
                => /\ ~pipe.raised.ok
                   /\ lastPrompt.pc = "done" /\ lastPrompt.out = pipe.raised
                   /\ pipe.calls = 0 /\ pipe.response = None /\ ext = NoCall
           /\ (pipe.pc = "done" /\ pipe.steps[Len(pipe.steps)] = "construct")
                => /\ pipe.raised = lastNew.out /\ ~lastNew.out.ok
                   /\ pipe.calls = 0 /\ pipe.response = None /\ ext = NoCall
           /\ (pipe.pc = "done" /\ pipe.steps[Len(pipe.steps)] = "extract")
                => ~pipe.raised.ok /\ pipe.response = None

\* A run that went through all six statements after the service was called
\* three times.
C16_Witness ==
    /\ pipe.pc = "done"
    /\ pipe.steps = RunOrder
    /\ pipe.calls = 3
    /\ pipe.out.ok

----------------------------------------------------------------------------
(* GeminiOCRClient() called from two threads at once.  __new__ and __init__ *)
(* take no lock, so the threads interleave between their statements: the   *)
(* test of _instance, its assignment, the read of it for the return, the   *)
(* test of _client, the key lookup, the genai.Client call, the assignment  *)
(* of _client.                                                             *)

Threads == {1, 2}

\* Thread t goes on with the local state `new`.
Become(t, new) == thr' = [thr EXCEPT ![t] = new]

\* Two threads call GeminiOCRClient() while no instance and no handle exist.
RaceStart ==
    /\ thr = <<>>
    /\ Idle
    /\ instance = None
    /\ thr' = [t \in Threads |-> [pc |-> "new_test", self |-> 0, h |-> 0, out |-> None]]
    /\ UNCHANGED <<settingsVars, clientVars, ext, promptVars, pipe, proc>>

\* `if cls._instance is None:`
NewTest ==
    \E t \in DOMAIN thr :
        /\ thr[t].pc = "new_test"
        /\ Become(t, [thr[t] EXCEPT !.pc = IF instance = None THEN "new_assign"
                                           ELSE "new_return"])
        /\ UNCHANGED <<settingsVars, clientVars, ext, promptVars, pipe, proc>>

\* `cls._instance = super().__new__(cls)`
NewAssign ==
    \E t \in DOMAIN thr :
        /\ thr[t].pc = "new_assign"
        /\ objs' = Append(objs, [client |-> None])
        /\ instance' = Some(Len(objs) + 1)
        /\ Become(t, [thr[t] EXCEPT !.pc = "new_return"])
        /\ UNCHANGED <<settingsVars, opens, lastNew, constructed, ext, promptVars,
                       pipe, proc>>

\* `return cls._instance`: the attribute is read again; __init__ starts on the
\* object read.
NewReturn ==
    \E t \in DOMAIN thr :
        /\ thr[t].pc = "new_return"
        /\ Become(t, [thr[t] EXCEPT !.pc = "init_test", !.self = instance.v])
        /\ UNCHANGED <<settingsVars, clientVars, ext, promptVars, pipe, proc>>

\* `if self._client is not None: return`
InitTest ==
    \E t \in DOMAIN thr :
        /\ thr[t].pc = "init_test"
        /\ Become(t, IF objs[thr[t].self].client # None
                     THEN [thr[t] EXCEPT !.pc = "done", !.out = Some(Ok("None"))]
                     ELSE [thr[t] EXCEPT !.pc = "init_key"])
        /\ UNCHANGED <<settingsVars, clientVars, ext, promptVars, pipe, proc>>

\* `Settings.get_api_key()` and the `except ConfigurationError` clause.
InitKey ==
    \E t \in DOMAIN thr :
        /\ thr[t].pc = "init_key"
        /\ \E k \in {Access("GEMINI_API_KEY", SettingsState)} :
              /\ SettingsBecome(k.st)
              /\ Become(t, IF k.out.ok THEN [thr[t] EXCEPT !.pc = "init_open"]
                           ELSE [thr[t] EXCEPT !.pc = "done", !.out =
                                   Some(Raise("ConfigurationError",
                                     <<"Failed to initialize Gemini client: ">>
                                         \o k.out.msg))])
        /\ UNCHANGED <<lastGet, returned, clientVars, ext, promptVars, pipe, proc>>

\* `genai.Client(api_key=...)`: a handle is opened, or the call raises and
\* the `except Exception` clause makes it an APIError.
InitOpen ==
    \E t \in DOMAIN thr :
        /\ thr[t].pc = "init_open"
        /\ \E mk \in {"ok", "fail"} :
              IF mk = "ok"
              THEN /\ opens' = opens + 1
                   /\ Become(t, [thr[t] EXCEPT !.pc = "init_store", !.h = opens + 1])
              ELSE /\ opens' = opens
                   /\ Become(t, [thr[t] EXCEPT !.pc = "done", !.out =
                           Some(Raise("APIError",
                             <<"Failed to create Gemini client: ", "no transport">>))])
        /\ UNCHANGED <<settingsVars, instance, objs, lastNew, constructed, ext,
                       promptVars, pipe, proc>>

\* `self._client = ...`
InitStore ==
    \E t \in DOMAIN thr :
        /\ thr[t].pc = "init_store"
        /\ objs' = [objs EXCEPT ![thr[t].self] = [client |-> Some(thr[t].h)]]
        /\ Become(t, [thr[t] EXCEPT !.pc = "done", !.out = Some(Ok("None"))])
        /\ UNCHANGED <<settingsVars, instance, opens, lastNew, constructed, ext,
                       promptVars, pipe, proc>>

RaceNext ==
    \/ RaceStart
    \/ NewTest
    \/ NewAssign
    \/ NewReturn
    \/ InitTest
    \/ InitKey
    \/ InitOpen
    \/ InitStore

SpecRace == ClientInit /\ [][RaceNext]_vars

----------------------------------------------------------------------------
(* Properties of concurrent construction, checked under SpecRace *)

\* C17: when two threads constructed the client concurrently, starting with
\* no handle, and both constructions returned, one handle was opened and
\* both threads hold the same instance, whose handle is that one.
C17_OneInitializationUnderRace ==
    (/\ thr # <<>>
     /\ \A t \in Threads : thr[t].pc = "done" /\ thr[t].out.v.ok)
        => /\ opens = 1
           /\ thr[1].self = thr[2].self
           /\ objs[thr[1].self].client = Some(1)

----------------------------------------------------------------------------
(* More properties of the client, checked under SpecClient *)

\* C18: a construction that failed raised ConfigurationError if no API key
\* can be resolved and APIError otherwise, opened and stored no handle, and
\* left _client unset so that the next construction initializes again; every
\* instance a construction returned has a handle, and no attempt of extract
\* fails with "Client not initialized".
C18_FailedConstructionLeavesNoHandle ==
    /\ (lastNew.pc = "done" /\ ~lastNew.out.ok)
          => /\ lastNew.out.kind = IF lastNew.nokey THEN "ConfigurationError"
                                   ELSE "APIError"
             /\ ~lastNew.opened
             /\ objs[lastNew.id].client = None
    /\ \A id \in constructed : objs[id].client # None
    /\ \A k \in 1..Len(ExtLog) : ExtLog[k].out.ok \/
            ~Contains(ExtLog[k].out.msg, "Client not initialized")

\* The waits of the current extract call.
ExtWaits == IF ext.pc = "idle" THEN <<>> ELSE ext.waits

\* C19: the n-th wait of an extract call follows failed attempt n and is
\* 2^(n-1) time-units raised to at least 2 and cut at 10, a value that
\* depends on n alone; the first wait is 2; every wait is between 2 and 10;
\* there are at most two waits and none after the last attempt: a call that
\* has ended made one wait less than attempts.
C19_WaitDependsOnAttemptOnly ==
    /\ Len(ExtWaits) <= 2
    /\ \A n \in 1..Len(ExtWaits) :
          /\ RaisedAPIError(ExtLog[n].out)
          /\ ExtWaits[n] >= 2 /\ ExtWaits[n] <= 10
          /\ ExtWaits[n] = IF 2 ^ (n - 1) < 2 THEN 2
                           ELSE IF 2 ^ (n - 1) > 10 THEN 10 ELSE 2 ^ (n - 1)
    /\ Len(ExtWaits) >= 1 => ExtWaits[1] = 2
    /\ ext.pc \in {"wait", "attempt"} => Len(ExtWaits) = Len(ExtLog)
    /\ ext.pc = "done" => Len(ExtWaits) = Len(ExtLog) - 1

\* Three attempts failed: two waits were made, none after the third.
C19_Witness ==
    /\ ext.pc = "done"
    /\ Len(ext.log) = 3
    /\ ~ext.out.ok
    /\ ext.waits = <<2, 2>>

\* C20: when load_image has finished, returning or raising, the file that
\* Image.open opened is not open any more.
C20_NoHandleLeftOpen ==
    (pipe.pc # "idle" /\ pipe.loaded # None) => pipe.loaded.v.fp # "open"

====
